---- MODULE Spec2Model ----
(***************************************************************************)
(* A model of wayland.py: the wire codec, the object id pool, the live     *)
(* object map, request marshalling, the receive/reframe/dispatch loop and  *)
(* the wl_display / wl_registry bootstrap handlers of Client.              *)
(*                                                                         *)
(* Bytes are naturals 0..255, byte strings are sequences of bytes and a    *)
(* Python str is the sequence of its (ASCII) code points.                  *)
(***************************************************************************)
EXTENDS Integers, Sequences, FiniteSets, TLC

(***************************************************************************)
(* Bounds of the model.                                                    *)
(***************************************************************************)
\* ObjectIDPool(minimum=1, maximum=0xfeffffff) scaled down so that the
\* cyclic generator wraps within a run.
MaximumId == 5
\* frames the compositor emits in one run
MaxFrames == 2
\* request invocations (and helper calls) the application makes in one run
MaxCalls == 3
\* set_handler and remove_handler calls the application makes in one run
MaxHandlerCalls == 4
\* the length of the strings and arrays the codec is applied to
MaxTextLen == 4

(***************************************************************************)
(* Sequence helpers (Python slicing).                                      *)
(***************************************************************************)
Min(a, b) == IF a < b THEN a ELSE b

\* buffer[:n]
Take(s, n) == SubSeq(s, 1, Min(n, Len(s)))

\* buffer[n:]
Drop(s, n) == SubSeq(s, Min(n, Len(s)) + 1, Len(s))

\* buffer[a:b] for 0 <= a
Slice(s, a, b) == SubSeq(s, Min(a, Len(s)) + 1, Min(b, Len(s)))

Zeros(n) == [i \in 1..n |-> 0]

(***************************************************************************)
(* Python values.  Every value is a record of one shape, so that any two   *)
(* values can be compared: t is the Python type, n the number of an int,   *)
(* s the content of a str (code points) or of a bytes object.              *)
(***************************************************************************)
PyInt(n) == [s |-> << >>, n |-> n, t |-> "int"]

PyStr(s) == [s |-> s, n |-> 0, t |-> "str"]

PyBytes(b) == [s |-> b, n |-> 0, t |-> "bytes"]

PyNone == [s |-> << >>, n |-> 0, t |-> "NoneType"]

\* a float that is a whole number of 1/256ths: n is 256 times its value
PyFloat256(n) == [s |-> << >>, n |-> n, t |-> "float"]

\* Python truthiness, as in "value if value else 0" and "oid or next(pool)"
Truthy(v) ==
    CASE v.t = "int" -> v.n # 0
      [] v.t = "NoneType" -> FALSE
      [] OTHER -> Len(v.s) > 0

(***************************************************************************)
(* Results of an encoder or decoder: ok is FALSE when the Python code      *)
(* raises (struct.error, TypeError, AttributeError).                       *)
(***************************************************************************)
Encoded(b) == [ok |-> TRUE, bytes |-> b]

EncodeError == [ok |-> FALSE, bytes |-> << >>]

Decoded(v, length) == [ok |-> TRUE, value |-> v, length |-> length]

DecodeError == [ok |-> FALSE, value |-> PyNone, length |-> 0]

(***************************************************************************)
(* struct.Struct('I') / ('i') / ('H'): native little-endian packing.       *)
(***************************************************************************)
LE(n, width) == [i \in 1..width |-> (n \div (256 ^ (i - 1))) % 256]

RECURSIVE FromLE(_)
FromLE(b) == IF b = << >> THEN 0 ELSE Head(b) + 256 * FromLE(Tail(b))

\* Struct('I').pack(value): 0 <= value < 2^32 (65536 * 65536)
PackI(v) ==
    IF v.t = "int" /\ v.n >= 0 /\ v.n \div 65536 <= 65535
    THEN Encoded(LE(v.n, 4))
    ELSE EncodeError

\* Struct('i').pack(value): -2^31 <= value < 2^31, two's complement
Packi(v) ==
    IF v.t = "int" /\ v.n \div 65536 >= -32768 /\ v.n \div 65536 <= 32767
    THEN Encoded(LE(v.n, 4))
    ELSE EncodeError

\* Struct('I').unpack(buffer[:4])[0]: needs exactly 4 bytes
UnpackI(buffer) ==
    IF Len(Take(buffer, 4)) = 4
    THEN Decoded(PyInt(FromLE(Take(buffer, 4))), 4)
    ELSE DecodeError

\* Struct('i').unpack(buffer[:4])[0]
Unpacki(buffer) ==
    IF Len(Take(buffer, 4)) = 4
    THEN LET low == FromLE(Take(buffer, 3))
             high == buffer[4]
         IN  Decoded(PyInt(low + 16777216 * (IF high >= 128 THEN high - 256 ELSE high)), 4)
    ELSE DecodeError

(***************************************************************************)
(* Header: struct 'IHH' (oid, opcode, size), 8 bytes.                      *)
(***************************************************************************)
HeaderLength == 8

\* the largest value of the header's size field (Struct('IHH'), an 'H')
MaxFrameSize == 65535

\* Header(oid, opcode, size).to_bytes()
HeaderToBytes(oid, opcode, size) ==
    IF oid >= 0 /\ oid \div 65536 <= 65535 /\ opcode \in 0..65535 /\ size \in 0..65535
    THEN Encoded(LE(oid, 4) \o LE(opcode, 2) \o LE(size, 2))
    ELSE EncodeError

\* Header.from_bytes(data[:8])
HeaderFromBytes(b) ==
    [oid |-> FromLE(SubSeq(b, 1, 4)),
     opcode |-> FromLE(SubSeq(b, 5, 6)),
     size |-> FromLE(SubSeq(b, 7, 8))]

(***************************************************************************)
(* The wayland data types.  from_bytes gives the WaylandType instance:     *)
(* its value and its length, which Event.__call__ trims from the payload.  *)
(***************************************************************************)
\* String.__init__ / Array.__init__: 4 + len + (-len % 4)
PaddedLength(n) == 4 + n + ((4 - (n % 4)) % 4)

\* String(text).to_bytes()
StringToBytes(v) ==
    IF v.t # "str"
    THEN EncodeError
    ELSE LET text == v.s
             string_length == Len(text) + 1
             padding == PaddedLength(Len(text)) - 4
         IN  Encoded(LE(string_length, 4) \o text \o Zeros(padding - Len(text)))

\* String.from_bytes(buffer)
StringFromBytes(buffer) ==
    LET length == UnpackI(buffer)
    IN  IF ~length.ok
        THEN DecodeError
        ELSE LET text == Slice(buffer, 4, 4 + length.value.n - 1)
             IN  Decoded(PyStr(text), PaddedLength(Len(text)))

\* Array(array).to_bytes()
ArrayToBytes(v) ==
    IF v.t \notin {"bytes", "str"}
    THEN EncodeError
    ELSE LET length == Len(v.s)
             padding_size == 4 - (length % 4)
         IN  Encoded(LE(length, 4) \o Zeros(padding_size))

\* Array.from_bytes(buffer)
ArrayFromBytes(buffer) ==
    LET length == UnpackI(buffer)
    IN  IF ~length.ok
        THEN DecodeError
        ELSE LET array == Slice(buffer, 4, 4 + length.value.n)
             IN  Decoded(PyBytes(array), PaddedLength(Len(array)))

\* Fixed(value).to_bytes(): (int(value) << 8) + int((value % 1.0) * 256);
\* int() truncates towards zero and value % 1.0 is in [0, 1)
FixedToBytes(v) ==
    IF v.t \notin {"float", "int"}
    THEN EncodeError
    ELSE LET n == IF v.t = "int" THEN 256 * v.n ELSE v.n
             whole == IF n >= 0 THEN n \div 256 ELSE -((-n) \div 256)
         IN  PackI(PyInt(256 * whole + (n % 256)))

\* Fixed.from_bytes(buffer): (unpacked >> 8) + (unpacked & 0xff) / 256.0
FixedFromBytes(buffer) ==
    LET unpacked == UnpackI(buffer)
    IN  IF ~unpacked.ok
        THEN DecodeError
        ELSE Decoded(PyFloat256(256 * (unpacked.value.n \div 256) + (unpacked.value.n % 256)), 4)

\* Object(value).to_bytes(): None (allow-null) is sent as 0
ObjectToBytes(v) == PackI(IF Truthy(v) THEN v ELSE PyInt(0))

\* NewID(value).to_bytes(): bytes pass through (wl_registry.bind)
NewIDToBytes(v) == IF v.t = "bytes" THEN Encoded(v.s) ELSE PackI(v)

\* Argument._type_map[type_name](value).to_bytes()
ToBytes(type_name, v) ==
    CASE type_name = "int" -> Packi(v)
      [] type_name = "uint" -> PackI(v)
      [] type_name = "fixed" -> FixedToBytes(v)
      [] type_name = "string" -> StringToBytes(v)
      [] type_name = "object" -> ObjectToBytes(v)
      [] type_name = "new_id" -> NewIDToBytes(v)
      [] type_name = "array" -> ArrayToBytes(v)
      [] type_name = "fd" -> Packi(v)

\* Argument._type_map[type_name].from_bytes(payload)
FromBytes(type_name, payload) ==
    CASE type_name = "int" -> Unpacki(payload)
      [] type_name = "uint" -> UnpackI(payload)
      [] type_name = "fixed" -> FixedFromBytes(payload)
      [] type_name = "string" -> StringFromBytes(payload)
      [] type_name = "object" -> UnpackI(payload)
      [] type_name = "new_id" -> UnpackI(payload)
      [] type_name = "array" -> ArrayFromBytes(payload)
      [] type_name = "fd" -> Unpacki(payload)

(***************************************************************************)
(* The protocol description handed to Client(): the part of wayland.xml    *)
(* the model exercises.  Requests and events are listed in declaration     *)
(* order, so an opcode is the index in the list minus one                  *)
(* (Interface.__init__ enumerates findall('request') / findall('event')).  *)
(* An argument is [type, interface]; interface "" is an absent attribute.  *)
(***************************************************************************)
Arg(type_name, interface) == [type |-> type_name, interface |-> interface]

Msg(name, arguments) == [name |-> name, arguments |-> arguments]

InterfaceNames ==
    {"wl_display", "wl_registry", "wl_callback", "wl_output", "wl_shell", "wl_shell_surface",
     "wl_keyboard"}

Requests(interface) ==
    CASE interface = "wl_display" ->
           << Msg("sync", << Arg("new_id", "wl_callback") >>),
              Msg("get_registry", << Arg("new_id", "wl_registry") >>) >>
      [] interface = "wl_registry" ->
           << Msg("bind", << Arg("uint", ""), Arg("new_id", "") >>) >>
      [] interface = "wl_callback" -> << >>
      [] interface = "wl_output" ->
           << Msg("release", << >>) >>
      [] interface = "wl_shell" ->
           << Msg("get_shell_surface",
                  << Arg("new_id", "wl_shell_surface"), Arg("object", "") >>) >>
      [] interface = "wl_shell_surface" ->
           << Msg("pong", << Arg("uint", "") >>) >>
      [] interface = "wl_keyboard" ->
           << Msg("release", << >>) >>

Events(interface) ==
    CASE interface = "wl_display" ->
           << Msg("error", << Arg("object", ""), Arg("uint", ""), Arg("string", "") >>),
              Msg("delete_id", << Arg("uint", "") >>) >>
      [] interface = "wl_registry" ->
           << Msg("global", << Arg("uint", ""), Arg("string", ""), Arg("uint", "") >>),
              Msg("global_remove", << Arg("uint", "") >>) >>
      [] interface = "wl_callback" ->
           << Msg("done", << Arg("uint", "") >>) >>
      [] interface = "wl_output" ->
           << Msg("geometry", << Arg("int", ""), Arg("int", ""), Arg("int", ""), Arg("int", ""),
                                 Arg("int", ""), Arg("string", ""), Arg("string", ""),
                                 Arg("int", "") >>),
              Msg("mode", << Arg("uint", ""), Arg("int", ""), Arg("int", ""), Arg("int", "") >>),
              Msg("done", << >>),
              Msg("scale", << Arg("int", "") >>) >>
      [] interface = "wl_shell" -> << >>
      [] interface = "wl_shell_surface" ->
           << Msg("ping", << Arg("uint", "") >>),
              Msg("configure", << Arg("uint", ""), Arg("int", ""), Arg("int", "") >>),
              Msg("popup_done", << >>) >>
      [] interface = "wl_keyboard" ->
           << Msg("keymap", << Arg("uint", ""), Arg("fd", ""), Arg("uint", "") >>),
              Msg("enter", << Arg("uint", ""), Arg("object", ""), Arg("array", "") >>) >>

\* Argument.returns_new_object: wl_type is NewID and interface
ReturnsNewObject(argument) == argument.type = "new_id" /\ argument.interface # ""

\* the code points of the interface names (str.encode() / bytes.decode())
Text(name) ==
    CASE name = "wl_display" -> << 119, 108, 95, 100, 105, 115, 112, 108, 97, 121 >>
      [] name = "wl_registry" -> << 119, 108, 95, 114, 101, 103, 105, 115, 116, 114, 121 >>
      [] name = "wl_callback" -> << 119, 108, 95, 99, 97, 108, 108, 98, 97, 99, 107 >>
      [] name = "wl_output" -> << 119, 108, 95, 111, 117, 116, 112, 117, 116 >>
      [] name = "wl_shell" -> << 119, 108, 95, 115, 104, 101, 108, 108 >>
      [] name = "wl_shell_surface" ->
           << 119, 108, 95, 115, 104, 101, 108, 108, 95, 115, 117, 114, 102, 97, 99, 101 >>
      [] name = "wl_keyboard" -> << 119, 108, 95, 107, 101, 121, 98, 111, 97, 114, 100 >>

\* "name in self._interface_classes" for a str given by its code points
IsInterfaceText(text) == \E i \in InterfaceNames : Text(i) = text

InterfaceOfText(text) == CHOOSE i \in InterfaceNames : Text(i) = text

(***************************************************************************)
(* The client's state as one record c, so that the methods can be written  *)
(* as functions from state to state:                                       *)
(*   sequence        the value the pool's cycle(range(1, maximum)) yields  *)
(*                   next                                                  *)
(*   recycle_pool    ObjectIDPool._recycle_pool                            *)
(*   client_objects  oid -> Interface instance [name, _handlers]           *)
(*   global_objects  interface name -> GlobalObject                        *)
(*   global_mapping  global name -> interface name                         *)
(*   semaphore       the value of Client._sync_semaphore                   *)
(*   wl_display, wl_registry   the instances Client.wl_display and         *)
(*                   Client.wl_registry refer to                           *)
(*   _recv_buffer    Client._recv_buffer                                   *)
(*   sock_out        the bytes written to the socket                       *)
(*   accepts         the number of bytes the socket's send buffer has room *)
(*                   for when sendmsg is called next                       *)
(*   sent            log: the requests handed to sendmsg, in order         *)
(*   dispatched      log: the dispatch_event calls made, in order          *)
(*   invoked         log: the handler calls made, in order                 *)
(*   id_log          log: the ids __next__ returned ("allocated") and      *)
(*                   delete_interface removed ("removed"), in order        *)
(*   created         the number of Interface instances constructed; an     *)
(*                   instance's serial tells it from a later instance     *)
(*                   with the same oid                                     *)
(*   raised          the exception propagating ("" when none)              *)
(***************************************************************************)
NoException == ""

Raise(c, exception) == [c EXCEPT !.raised = exception]

Put(f, k, v) == [x \in DOMAIN f \cup {k} |-> IF x = k THEN v ELSE f[x]]

Remove(f, k) == [x \in DOMAIN f \ {k} |-> f[x]]

\* next(self._sequence) for itertools.cycle(range(minimum, maximum))
CycleAfter(oid) == IF oid + 1 >= MaximumId THEN 1 ELSE oid + 1

InSeq(x, q) == \E i \in 1..Len(q) : q[i] = x

\* ObjectIDPool.__next__, lines 43-48: advance the generator, skipping the
\* ids in the recycle pool
RECURSIVE FromSequence(_, _)
FromSequence(oid, pool) ==
    IF InSeq(oid, pool)
    THEN FromSequence(CycleAfter(oid), pool)
    ELSE [oid |-> oid, sequence |-> CycleAfter(oid)]

Yield(c, got) == [oid |-> got.oid, c |-> [c EXCEPT !.sequence = got.sequence]]

IdEvent(kind, oid) == [kind |-> kind, oid |-> oid]

Logged(got) ==
    [oid |-> got.oid, c |-> [got.c EXCEPT !.id_log = Append(@, IdEvent("allocated", got.oid))]]

\* ObjectIDPool.__next__ were it to pop the recycle pool from the right
PoolNextFromRight(c) ==
    IF c.recycle_pool # << >>
    THEN Logged([oid |-> c.recycle_pool[Len(c.recycle_pool)],
                 c |-> [c EXCEPT !.recycle_pool = Take(@, Len(@) - 1)]])
    ELSE Logged(Yield(c, FromSequence(c.sequence, c.recycle_pool)))

\* ObjectIDPool.__next__: [oid, c]
PoolNext(c) ==
    IF c.recycle_pool # << >>
    THEN Logged([oid |-> Head(c.recycle_pool),
                 c |-> [c EXCEPT !.recycle_pool = Tail(c.recycle_pool)]])
    ELSE Logged(Yield(c, FromSequence(c.sequence, c.recycle_pool)))

\* ObjectIDPool.send
PoolSend(c, oid) == [c EXCEPT !.recycle_pool = Append(@, oid)]

EventNames(interface) == {Events(interface)[i].name : i \in 1..Len(Events(interface))}

\* Interface.__init__: an empty handler list for every declared event
NewInterface(name, serial) ==
    [name |-> name, serial |-> serial, _handlers |-> [e \in EventNames(name) |-> << >>]]

\* lines 465-468, got being the oid of line 464 and the client after it
Register(name, got) ==
    [oid |-> got.oid,
     c |-> [got.c EXCEPT !.client_objects =
               Put(@, got.oid, NewInterface(InterfaceOfText(name.s), got.c.created + 1)),
                         !.created = @ + 1]]

\* Protocol.create_interface(name, oid): [oid, c]; name is a str
CreateInterface(c, name, oid) ==
    IF name.t # "str" \/ ~IsInterfaceText(name.s)
    THEN [oid |-> 0, c |-> Raise(c, "WaylandProtocolError")]
    ELSE Register(name, IF Truthy(oid) THEN [oid |-> oid.n, c |-> c] ELSE PoolNext(c))

\* Protocol.delete_interface(oid)
DeleteInterface(c, oid) ==
    IF oid \notin DOMAIN c.client_objects
    THEN Raise(c, "KeyError")
    ELSE PoolSend([c EXCEPT !.client_objects = Remove(@, oid),
                            !.id_log = Append(@, IdEvent("removed", oid))], oid)

\* whether the Interface instance ref = [oid, name, serial] is the one the live
\* map holds at its oid
IsLive(c, ref) ==
    ref.oid \in DOMAIN c.client_objects /\ c.client_objects[ref.oid].serial = ref.serial

\* Interface.set_handler(name, handler) on the instance ref; the handlers of
\* an instance the live map no longer holds are never dispatched
SetHandler(c, ref, name, handler) ==
    IF name \notin EventNames(ref.name)
    THEN Raise(c, "KeyError")
    ELSE IF IsLive(c, ref)
    THEN [c EXCEPT !.client_objects[ref.oid]._handlers[name] = Append(@, handler)]
    ELSE c

\* the list without the first occurrence of handler (list.remove)
RECURSIVE WithoutFirst(_, _)
WithoutFirst(handlers, handler) ==
    IF handlers = << >> THEN << >>
    ELSE IF Head(handlers) = handler THEN Tail(handlers)
    ELSE << Head(handlers) >> \o WithoutFirst(Tail(handlers), handler)

\* Interface.remove_handler(name, handler) on the instance ref
RemoveHandler(c, ref, name, handler) ==
    IF name \notin EventNames(ref.name)
    THEN Raise(c, "KeyError")
    ELSE IF IsLive(c, ref) /\ InSeq(handler, c.client_objects[ref.oid]._handlers[name])
    THEN [c EXCEPT !.client_objects[ref.oid]._handlers[name] = WithoutFirst(@, handler)]
    ELSE c

\* self._handlers[name] of the instance ref
HandlersOf(c, ref, name) ==
    IF IsLive(c, ref) /\ name \in EventNames(ref.name)
    THEN c.client_objects[ref.oid]._handlers[name]
    ELSE << >>

(***************************************************************************)
(* The handlers.  A handler is named by a string; args are the decoded     *)
(* values.                                                                 *)
(***************************************************************************)
\* Client._wl_display_delete_id_handler(oid)
WlDisplayDeleteIdHandler(c, args) == DeleteInterface(c, args[1].n)

\* Client._wl_display_error_handler(oid, code, message): prints
WlDisplayErrorHandler(c, args) == c

\* Client._wl_display_sync_handler(_unused)
WlDisplaySyncHandler(c, args) == [c EXCEPT !.semaphore = @ + 1]

\* Client._wl_registry_global(name, interface, version)
WlRegistryGlobal(c, args) ==
    LET name == args[1].n
        interface == args[2].s
        version == args[3].n
    IN  [c EXCEPT !.global_objects =
                     Put(@, interface, [name |-> name, interface |-> interface,
                                        version |-> version]),
                  !.global_mapping = Put(@, name, interface)]

\* Client._wl_registry_global_remove(name)
WlRegistryGlobalRemove(c, args) ==
    LET name == args[1].n
    IN  IF name \notin DOMAIN c.global_mapping
        THEN Raise(c, "KeyError")
        ELSE LET interface_name == c.global_mapping[name]
                 c1 == [c EXCEPT !.global_mapping = Remove(@, name)]
             IN  IF interface_name \notin DOMAIN c1.global_objects
                 THEN Raise(c1, "KeyError")
                 ELSE [c1 EXCEPT !.global_objects = Remove(@, interface_name)]

\* handlers of the application: one that returns, one that raises
UserHandlers == {"on_event", "faulty"}

\* handlers of the application that change the list being iterated: one
\* that removes itself, one that removes on_event, one that sets another
EditingHandlers == {"removes_itself", "removes_on_event", "sets_late"}

\* the instance whose event is being dispatched
DispatchingRef(c) ==
    [oid |-> c.dispatched[Len(c.dispatched)].oid,
     name |-> c.dispatched[Len(c.dispatched)].interface,
     serial |-> c.dispatched[Len(c.dispatched)].serial]

\* the event being dispatched
DispatchingEvent(c) == c.dispatched[Len(c.dispatched)].name

\* self._handlers[name], the list dispatch_event iterates over, after a
\* handler was called; handlers is the list before the call
IteratedList(c, handlers) ==
    IF IsLive(c, DispatchingRef(c))
    THEN HandlersOf(c, DispatchingRef(c), DispatchingEvent(c))
    ELSE handlers

\* handler(*args)
CallHandler(c, handler, args) ==
    LET c1 == [c EXCEPT !.invoked = Append(@, handler)]
    IN  CASE handler = "_wl_display_delete_id_handler" -> WlDisplayDeleteIdHandler(c1, args)
          [] handler = "_wl_display_error_handler" -> WlDisplayErrorHandler(c1, args)
          [] handler = "_wl_display_sync_handler" -> WlDisplaySyncHandler(c1, args)
          [] handler = "_wl_registry_global" -> WlRegistryGlobal(c1, args)
          [] handler = "_wl_registry_global_remove" -> WlRegistryGlobalRemove(c1, args)
          [] handler = "on_event" -> c1
          [] handler = "faulty" -> Raise(c1, "HandlerError")
          [] handler = "removes_itself" ->
                 RemoveHandler(c1, DispatchingRef(c1), DispatchingEvent(c1), handler)
          [] handler = "removes_on_event" ->
                 RemoveHandler(c1, DispatchingRef(c1), DispatchingEvent(c1), "on_event")
          [] handler = "sets_late" ->
                 SetHandler(c1, DispatchingRef(c1), DispatchingEvent(c1), "late")
          [] handler = "late" -> c1

\* Interface.dispatch_event(name, *args): for handler in self._handlers[name];
\* handlers is the list of the instance, i the position of the iteration,
\* which goes on while i is within the list as it is then
RECURSIVE DispatchEvent(_, _, _, _)
\* c1 is c after handlers[i] was called
DispatchRest(c1, handlers, i, args) ==
    IF c1.raised # NoException
    THEN c1
    ELSE DispatchEvent(c1, IteratedList(c1, handlers), i + 1, args)

\* dispatch_event were it to call the handlers last registered first
DispatchEventLastFirst(c, handlers, i, args) ==
    IF i > Len(handlers)
    THEN c
    ELSE DispatchRest(CallHandler(c, handlers[Len(handlers) - i + 1], args),
                      handlers, i, args)

DispatchEvent(c, handlers, i, args) ==
    IF i > Len(handlers)
    THEN c
    ELSE DispatchRest(CallHandler(c, handlers[i], args), handlers, i, args)

\* the for loop of Event.__call__: decode each argument and trim the payload
RECURSIVE DecodeArguments(_, _, _)
\* wl_type is what arg.wl_type.from_bytes(payload) gave for the first argument
DecodeRest(arguments, payload, decoded_values, wl_type) ==
    IF ~wl_type.ok
    THEN [ok |-> FALSE, values |-> decoded_values]
    ELSE DecodeArguments(Tail(arguments), Drop(payload, wl_type.length),
                         Append(decoded_values, wl_type.value))

DecodeArguments(arguments, payload, decoded_values) ==
    IF arguments = << >>
    THEN [ok |-> TRUE, values |-> decoded_values]
    ELSE DecodeRest(arguments, payload, decoded_values,
                    FromBytes(Head(arguments).type, payload))

\* Event.__call__(payload) of the event at opcode of the instance at oid
\* line 310: self._interface.dispatch_event(self.name, *decoded_values)
EventDispatch(c, oid, interface, event, payload, decoded) ==
    IF ~decoded.ok
    THEN Raise(c, "struct.error")
    ELSE DispatchEvent(
             [c EXCEPT !.dispatched =
                 Append(@, [oid |-> oid, interface |-> interface.name,
                            serial |-> interface.serial, name |-> event.name,
                            args |-> decoded.values,
                            size |-> HeaderLength + Len(payload)])],
             interface._handlers[event.name], 1, decoded.values)

EventOf(interface, opcode) == Events(interface.name)[opcode + 1]

EventCall(c, oid, opcode, payload) ==
    EventDispatch(c, oid, c.client_objects[oid], EventOf(c.client_objects[oid], opcode), payload,
                  DecodeArguments(EventOf(c.client_objects[oid], opcode).arguments,
                                  payload, << >>))

(***************************************************************************)
(* Client.receive, lines 599-623, for the bytes new_data that recvmsg      *)
(* returned: [c, data].  When a lookup, a decoder or a handler raises, the *)
(* loop is left with the exception in c.raised and line 623 is not run.    *)
(***************************************************************************)
\* self.client_objects[header.oid] and interface.events[header.opcode] raising
UnknownObject == "KeyError: client_objects[header.oid]"

UnknownOpcode == "IndexError: events[header.opcode]"

\* the while loop of receive() going round for ever
NoReturn == "receive() does not return"

\* while len(data) > _header_len
MoreToParse(data) == Len(data) > HeaderLength

RECURSIVE Reframe(_, _)
\* line 620, c1 being c after event(...) of line 617
ReframeRest(c1, data, header) ==
    IF c1.raised # NoException
    THEN [c |-> c1, data |-> data]
    ELSE IF Drop(data, header.size) = data
    THEN [c |-> Raise(c1, NoReturn), data |-> data]
    ELSE Reframe(c1, Drop(data, header.size))

\* lines 609-617 for the header decoded at line 606
ReframeOne(c, data, header) ==
    IF Len(data) < header.size
    THEN [c |-> c, data |-> data]
    ELSE IF header.oid \notin DOMAIN c.client_objects
    THEN [c |-> Raise(c, UnknownObject), data |-> data]
    ELSE IF header.opcode >= Len(Events(c.client_objects[header.oid].name))
    THEN [c |-> Raise(c, UnknownOpcode), data |-> data]
    ELSE ReframeRest(EventCall(c, header.oid, header.opcode,
                               Slice(data, HeaderLength, header.size)),
                     data, header)

Reframe(c, data) ==
    IF ~MoreToParse(data)
    THEN [c |-> c, data |-> data]
    ELSE ReframeOne(c, data, HeaderFromBytes(Take(data, HeaderLength)))

\* Client.receive(): c after the call
\* line 623, unless the loop raised
KeepLeftover(got) ==
    IF got.c.raised # NoException
    THEN got.c
    ELSE [got.c EXCEPT !._recv_buffer = got.data]

Receive(c, new_data) == KeepLeftover(Reframe(c, c._recv_buffer \o new_data))

(***************************************************************************)
(* Requests.                                                               *)
(***************************************************************************)
\* Client.sendmsg(request, fds): one sendmsg call
SendMsg(c, request, fds) ==
    IF c.accepts = 0
    THEN Raise([c EXCEPT !.sent = Append(@, request)], "BlockingIOError")
    ELSE [c EXCEPT !.sock_out = @ \o Take(request, c.accepts),
                   !.sent = Append(@, request)]

\* Request._send were it to drop the object once its request is written
SendAndForget(c, parent_oid, opcode, bytestring, fds) ==
    LET size == HeaderLength + Len(bytestring)
        header == HeaderToBytes(parent_oid, opcode, size)
    IN  IF ~header.ok
        THEN Raise(c, "struct.error")
        ELSE DeleteInterface(SendMsg(c, header.bytes \o bytestring, fds), parent_oid)

\* Request._send(bytestring, fds)
Send(c, parent_oid, opcode, bytestring, fds) ==
    LET size == HeaderLength + Len(bytestring)
        header == HeaderToBytes(parent_oid, opcode, size)
    IN  IF ~header.ok
        THEN Raise(c, "struct.error")
        ELSE SendMsg(c, header.bytes \o bytestring, fds)

NoInterface == [oid |-> 0, name |-> "None", serial |-> 0]

RefAt(c, oid) ==
    [oid |-> oid, name |-> c.client_objects[oid].name, serial |-> c.client_objects[oid].serial]

\* the for loop of Request.__call__ over zip(self.arguments, args):
\* [c, interface, bytestring, fds]
RECURSIVE Marshal(_, _, _, _, _, _)
\* lines 349-352 for the first argument: c1 is c after line 348, interface1
\* the interface after line 348, encoded is argument(value)
MarshalEncode(c1, arguments, args, interface1, bytestring, fds, encoded) ==
    IF ~encoded.ok
    THEN [c |-> Raise(c1, "struct.error"), interface |-> interface1,
          bytestring |-> bytestring, fds |-> fds]
    ELSE IF Head(arguments).type = "fd"
    THEN Marshal(c1, Tail(arguments), Tail(args), interface1, bytestring, fds \o encoded.bytes)
    ELSE Marshal(c1, Tail(arguments), Tail(args), interface1, bytestring \o encoded.bytes, fds)

\* made is what create_interface(argument.interface, value) gave, line 348
MarshalCreated(arguments, args, interface, bytestring, fds, made) ==
    IF made.c.raised # NoException
    THEN [c |-> made.c, interface |-> interface, bytestring |-> bytestring, fds |-> fds]
    ELSE MarshalEncode(made.c, arguments, args, RefAt(made.c, made.oid), bytestring, fds,
                       ToBytes(Head(arguments).type, Head(args)))

Marshal(c, arguments, args, interface, bytestring, fds) ==
    IF arguments = << >> \/ args = << >>
    THEN [c |-> c, interface |-> interface, bytestring |-> bytestring, fds |-> fds]
    ELSE IF ReturnsNewObject(Head(arguments))
    THEN MarshalCreated(arguments, args, interface, bytestring, fds,
                        CreateInterface(c, PyStr(Text(Head(arguments).interface)), Head(args)))
    ELSE MarshalEncode(c, arguments, args, interface, bytestring, fds,
                       ToBytes(Head(arguments).type, Head(args)))

\* the assert of Request.__call__, line 341
\* Request.__call__ were it not to assert the number of values
ArityUnchecked(arguments, args) == TRUE

\* line 341
ArityOk(arguments, args) == Len(args) = Len(arguments)

\* Request.__call__(*args) of the request at opcode of the instance ref:
\* [c, interface]
\* lines 354-355, m being the outcome of the loop
SendMarshalled(ref, opcode, m) ==
    IF m.c.raised # NoException
    THEN [c |-> m.c, interface |-> NoInterface]
    ELSE [c |-> Send(m.c, ref.oid, opcode, m.bytestring, m.fds), interface |-> m.interface]

RequestCall(c, ref, opcode, args) ==
    IF ~ArityOk(Requests(ref.name)[opcode + 1].arguments, args)
    THEN [c |-> Raise(c, "AssertionError"), interface |-> NoInterface]
    ELSE SendMarshalled(ref, opcode,
                        Marshal(c, Requests(ref.name)[opcode + 1].arguments, args,
                                NoInterface, << >>, << >>))

\* the opcode of the request called name
RECURSIVE IndexOf(_, _, _)
IndexOf(msgs, name, i) ==
    IF i > Len(msgs) THEN 0 ELSE IF msgs[i].name = name THEN i ELSE IndexOf(msgs, name, i + 1)

Opcode(interface, name) == IndexOf(Requests(interface), name, 1) - 1

\* line 452
BindReturn(interface_instance, called) ==
    [c |-> called.c,
     interface |-> IF called.c.raised = NoException THEN interface_instance ELSE NoInterface]

\* line 451
BindRequest(c, wl_registry, interface_global, interface_instance, _string, _version, _new_id) ==
    IF ~(_string.ok /\ _version.ok /\ _new_id.ok)
    THEN [c |-> Raise(c, "struct.error"), interface |-> NoInterface]
    ELSE BindReturn(interface_instance,
                    RequestCall(c, wl_registry, Opcode("wl_registry", "bind"),
                                << PyInt(interface_global.name),
                                   PyBytes(_string.bytes \o _version.bytes \o _new_id.bytes) >>))

\* lines 445-448, made being what create_interface(name) gave
BindCreated(wl_registry, name, interface_global, made) ==
    IF made.c.raised # NoException
    THEN [c |-> made.c, interface |-> NoInterface]
    ELSE BindRequest(made.c, wl_registry, interface_global, RefAt(made.c, made.oid),
                     StringToBytes(name), PackI(PyInt(interface_global.version)),
                     NewIDToBytes(PyInt(made.oid)))

\* Protocol.bind_interface(name): [c, interface]; wl_registry is the
\* instance Client.wl_registry refers to
BindInterface(c, name) ==
    IF name.s \notin DOMAIN c.global_objects
    THEN [c |-> Raise(c, "KeyError"), interface |-> NoInterface]
    ELSE BindCreated(c.wl_registry, name, c.global_objects[name.s],
                     CreateInterface(c, name, PyNone))

(***************************************************************************)
(* Client.__init__, lines 536-562.                                         *)
(***************************************************************************)
Blank ==
    [sequence |-> 1, recycle_pool |-> << >>, client_objects |-> << >>,
     global_objects |-> << >>, global_mapping |-> << >>, semaphore |-> 0,
     wl_display |-> NoInterface, wl_registry |-> NoInterface,
     _recv_buffer |-> << >>, sock_out |-> << >>, accepts |-> MaxFrameSize,
     sent |-> << >>,
     dispatched |-> << >>, invoked |-> << >>, id_log |-> << >>, created |-> 0,
     raised |-> NoException]

\* lines 553-555
InitDisplay(d) ==
    SetHandler(SetHandler([d.c EXCEPT !.wl_display = RefAt(d.c, d.oid)],
                          RefAt(d.c, d.oid), "error", "_wl_display_error_handler"),
               RefAt(d.c, d.oid), "delete_id", "_wl_display_delete_id_handler")

\* lines 558-562, r being what get_registry(next(self.oid_pool)) gave
InitRegistry(r) ==
    [SetHandler(SetHandler([r.c EXCEPT !.wl_registry = r.interface],
                           r.interface, "global", "_wl_registry_global"),
                r.interface, "global_remove", "_wl_registry_global_remove")
        EXCEPT !.semaphore = 1]

\* self.wl_display.get_registry(n) for n = next(self.oid_pool)
GetRegistry(n) ==
    RequestCall(n.c, n.c.wl_display, Opcode("wl_display", "get_registry"), << PyInt(n.oid) >>)

ClientInit ==
    InitRegistry(GetRegistry(PoolNext(
        InitDisplay(CreateInterface(Blank, PyStr(Text("wl_display")), PyNone)))))

(***************************************************************************)
(* The compositor.  It emits frames in the wire format: a header and the   *)
(* arguments, a string as its length (with the NUL), its bytes, the NUL    *)
(* and padding to a multiple of 4.                                         *)
(***************************************************************************)
WireUInt(n) == LE(n, 4)

WireString(text) ==
    LE(Len(text) + 1, 4) \o text \o Zeros(1 + ((4 - ((Len(text) + 1) % 4)) % 4))

WireFrame(oid, opcode, payload) ==
    LE(oid, 4) \o LE(opcode, 2) \o LE(HeaderLength + Len(payload), 2) \o payload

WireArray(array) ==
    LE(Len(array), 4) \o array \o Zeros((4 - (Len(array) % 4)) % 4)

\* the texts the compositor sends
BadRequest == << 98, 97, 100 >>

GlobalNames == {1, 2}

GlobalVersion == 4

CallbackData == 7

ErrorCode == 42

LiveOf(c, interface) ==
    {oid \in DOMAIN c.client_objects : c.client_objects[oid].name = interface}

\* wl_display.error(object_id, code, message)
ErrorFrames(c) ==
    {WireFrame(oid, 0, WireUInt(2) \o WireUInt(ErrorCode) \o WireString(BadRequest)) :
        oid \in LiveOf(c, "wl_display")}

\* wl_display.delete_id(id) for the ids the application's objects get
DeleteIdFrames(c) ==
    {WireFrame(oid, 1, WireUInt(x)) : oid \in LiveOf(c, "wl_display"), x \in 3..(MaximumId - 1)}

\* wl_registry.global(name, interface, version)
GlobalFramesOf(c, names, interface) ==
    {WireFrame(oid, 0, WireUInt(n) \o WireString(Text(interface)) \o WireUInt(GlobalVersion)) :
        oid \in LiveOf(c, "wl_registry"), n \in names}

GlobalFrames(c, names) == GlobalFramesOf(c, names, "wl_output")

\* wl_registry.global_remove(name)
GlobalRemoveFrames(c, names) ==
    {WireFrame(oid, 1, WireUInt(n)) : oid \in LiveOf(c, "wl_registry"), n \in names}

\* wl_callback.done(callback_data)
CallbackDoneFrames(c) ==
    {WireFrame(oid, 0, WireUInt(CallbackData)) : oid \in LiveOf(c, "wl_callback")}

\* wl_output.done()
OutputDoneFrames(c) == {WireFrame(oid, 2, << >>) : oid \in LiveOf(c, "wl_output")}

\* frames of a compositor that is out of step: an id the client does not
\* hold, an opcode the interface does not declare
DesyncFrames(c) ==
    {WireFrame(MaximumId, 0, << >>)}
    \cup {WireFrame(oid, Len(Events("wl_registry")), << >>) : oid \in LiveOf(c, "wl_registry")}

\* frames whose header gives a size smaller than the header: wl_output.done
\* with the size 0 or 4, four bytes behind it
ShortFrames(c) ==
    {LE(oid, 4) \o LE(2, 2) \o LE(size, 2) \o WireUInt(0) :
        oid \in LiveOf(c, "wl_output"), size \in {0, 4}}

(***************************************************************************)
(* State.                                                                  *)
(*   client       the Client (see the record c above)                      *)
(*   wire_in      the bytes the compositor has written and recvmsg has not *)
(*                yet returned                                             *)
(*   stream       log: the frames the compositor has emitted, in order,    *)
(*                each with whether it was an event of a live object when  *)
(*                emitted                                                  *)
(*   refs         the Interface instances the application holds            *)
(*   calls        the number of calls the application has made             *)
(*   returned     the outcome of the last call: the operation; for a       *)
(*                request the instance it was invoked on, its opcode and   *)
(*                the number of positional values; the exception raised,   *)
(*                the interface returned, and for sync() whether the       *)
(*                semaphore was acquired; for set_handler and              *)
(*                remove_handler the instance, the event name, the handler *)
(*                and the handler list the call found                      *)
(*   sync_pc      where the thread inside Client.sync() is                 *)
(*   sync_ref     the wl_callback of the sync() call in progress           *)
(*   fatal        log: receive() has processed a wl_display.error event or *)
(*                a frame with an unknown id or opcode                     *)
(*   rx_raised    log: the number of receive() calls that raised (2: more  *)
(*                than one)                                                *)
(*   probe        the last call of the wire codec made on its own: the     *)
(*                value, what to_bytes gave for it and from_bytes for      *)
(*                that; the value as the compositor writes it and what     *)
(*                from_bytes or Event.__call__ gave for that               *)
(***************************************************************************)
VARIABLES client, wire_in, stream, refs, calls, returned, sync_pc, sync_ref, fatal, rx_raised,
          probe

vars ==
    << client, wire_in, stream, refs, calls, returned, sync_pc, sync_ref, fatal, rx_raised,
       probe >>

Outcome(op, on, opcode, nargs, raised, interface, acquired) ==
    [op |-> op, on |-> on, opcode |-> opcode, nargs |-> nargs, raised |-> raised,
     interface |-> interface, acquired |-> acquired,
     event |-> "", handler |-> "", before |-> << >>]

\* the outcome of set_handler / remove_handler(name, handler) on the instance
\* ref, before being the handler list the call found
HandlerCall(op, ref, name, handler, before) ==
    [Outcome(op, ref, 0, 0, NoException, NoInterface, FALSE)
        EXCEPT !.event = name, !.handler = handler, !.before = before]

\* the outcome of a call that is no request on an instance
Plain(op, raised, interface, acquired) ==
    Outcome(op, NoInterface, 0, 0, raised, interface, acquired)

NoProbe ==
    [kind |-> "", value |-> << >>, fds |-> << >>, encoded |-> EncodeError,
     decoded |-> DecodeError, wire |-> << >>, wire_decoded |-> DecodeError,
     event |-> [ok |-> FALSE, values |-> << >>]]

Init ==
    /\ client = ClientInit
    /\ wire_in = << >>
    /\ stream = << >>
    /\ refs = {ClientInit.wl_display, ClientInit.wl_registry}
    /\ calls = 0
    /\ returned = Plain("__init__", NoException, NoInterface, FALSE)
    /\ sync_pc = "idle"
    /\ sync_ref = NoInterface
    /\ fatal = FALSE
    /\ rx_raised = 0
    /\ probe = NoProbe

\* the exception has reached the caller
Caught(c) == IF c.raised = NoReturn THEN c ELSE [c EXCEPT !.raised = NoException]

\* the thread that calls receive() is not inside a call that never returns
Returns == client.raised # NoReturn

\* whether the frame's header names a live object and an event it declares,
\* and gives the frame's size
IsEvent(c, frame) ==
    /\ HeaderFromBytes(frame).size = Len(frame)
    /\ HeaderFromBytes(frame).oid \in DOMAIN c.client_objects
    /\ HeaderFromBytes(frame).opcode
           < Len(Events(c.client_objects[HeaderFromBytes(frame).oid].name))

\* the compositor writes a frame
ServerEmit(frame, limit) ==
    /\ Len(stream) < limit
    /\ wire_in' = wire_in \o frame
    /\ stream' = Append(stream, [frame |-> frame, valid |-> IsEvent(client, frame)])
    /\ UNCHANGED << client, refs, calls, returned, sync_pc, sync_ref, fatal, rx_raised, probe >>

HasError(log) ==
    \E i \in 1..Len(log) : log[i].interface = "wl_display" /\ log[i].name = "error"

\* receive() returns or raises, c1 being the client then
Received(c1) ==
    /\ client' = Caught(c1)
    /\ returned' = Plain("receive", c1.raised, NoInterface, FALSE)
    /\ fatal' = (fatal \/ c1.raised \in {UnknownObject, UnknownOpcode}
                       \/ HasError(c1.dispatched))
    /\ rx_raised' = IF c1.raised # NoException THEN Min(rx_raised + 1, 2) ELSE rx_raised

\* Client.receive() when recvmsg returns the first n bytes in flight; it may
\* run while another thread is inside sync()
ReceiveCall(n) ==
    /\ Returns
    /\ n \in 1..Len(wire_in)
    /\ Received(Receive(client, Take(wire_in, n)))
    /\ wire_in' = Drop(wire_in, n)
    /\ UNCHANGED << stream, refs, calls, sync_pc, sync_ref, probe >>

\* the argument tuples the application calls requests with
ArgTuples == { << >>, << PyNone >>, << PyInt(0) >>, << PyInt(1), PyNone >> }

Holding(interface) == IF interface = NoInterface THEN {} ELSE {interface}

\* a call returns r.interface or raises, r.c being the client then
Called(op, on, opcode, nargs, r) ==
    /\ client' = Caught(r.c)
    /\ returned' = Outcome(op, on, opcode, nargs, r.c.raised, r.interface, FALSE)
    /\ refs' = refs \cup Holding(r.interface)

\* request(n) for n = next(client.oid_pool)
RequestWithNewId(n, ref, opcode) == RequestCall(n.c, ref, opcode, << PyInt(n.oid) >>)

\* request(*args) on an instance the application holds
InvokeRequest(ref, opcode, args) ==
    /\ sync_pc = "idle"
    /\ calls < MaxCalls
    /\ ref \in refs
    /\ opcode \in 0..(Len(Requests(ref.name)) - 1)
    /\ Called("request", ref, opcode, Len(args), RequestCall(client, ref, opcode, args))
    /\ calls' = calls + 1
    /\ UNCHANGED << wire_in, stream, sync_pc, sync_ref, fatal, rx_raised, probe >>

\* request(next(client.oid_pool)) for a request whose argument is a pinned new_id
InvokeWithNewId(ref, opcode) ==
    /\ sync_pc = "idle"
    /\ calls < MaxCalls
    /\ ref \in refs
    /\ opcode \in 0..(Len(Requests(ref.name)) - 1)
    /\ Len(Requests(ref.name)[opcode + 1].arguments) = 1
    /\ ReturnsNewObject(Requests(ref.name)[opcode + 1].arguments[1])
    /\ Called("request", ref, opcode, 1, RequestWithNewId(PoolNext(client), ref, opcode))
    /\ calls' = calls + 1
    /\ UNCHANGED << wire_in, stream, sync_pc, sync_ref, fatal, rx_raised, probe >>

\* client.protocols.wayland.bind_interface(name)
Bind(name) ==
    /\ sync_pc = "idle"
    /\ calls < MaxCalls
    /\ Called("bind_interface", NoInterface, 0, 0, BindInterface(client, PyStr(Text(name))))
    /\ calls' = calls + 1
    /\ UNCHANGED << wire_in, stream, sync_pc, sync_ref, fatal, rx_raised, probe >>

\* interface.set_handler(name, handler) by the application
AppSetHandler(ref, name, handler) ==
    /\ sync_pc = "idle"
    /\ calls < MaxHandlerCalls
    /\ ref \in refs
    /\ name \in EventNames(ref.name)
    /\ client' = SetHandler(client, ref, name, handler)
    /\ returned' = HandlerCall("set_handler", ref, name, handler,
                                HandlersOf(client, ref, name))
    /\ calls' = calls + 1
    /\ UNCHANGED << wire_in, stream, refs, sync_pc, sync_ref, fatal, rx_raised, probe >>

\* interface.remove_handler(name, handler) by the application
AppRemoveHandler(ref, name, handler) ==
    /\ sync_pc = "idle"
    /\ calls < MaxHandlerCalls
    /\ ref \in refs
    /\ name \in EventNames(ref.name)
    /\ client' = RemoveHandler(client, ref, name, handler)
    /\ returned' = HandlerCall("remove_handler", ref, name, handler,
                                HandlersOf(client, ref, name))
    /\ calls' = calls + 1
    /\ UNCHANGED << wire_in, stream, refs, sync_pc, sync_ref, fatal, rx_raised, probe >>

(***************************************************************************)
(* Client.sync(), lines 571-573, one action per statement.                 *)
(***************************************************************************)
\* line 571 returns r.interface or raises
SyncRequested(r) ==
    /\ client' = Caught(r.c)
    /\ sync_ref' = r.interface
    /\ sync_pc' = IF r.c.raised = NoException THEN "set_handler" ELSE "idle"
    /\ returned' = Plain("sync", r.c.raised, NoInterface, FALSE)

\* wl_callback = self.wl_display.sync(next(self.oid_pool))
SyncRequest ==
    /\ sync_pc = "idle"
    /\ calls < MaxCalls
    /\ SyncRequested(RequestWithNewId(PoolNext(client), client.wl_display,
                                       Opcode("wl_display", "sync")))
    /\ calls' = calls + 1
    /\ UNCHANGED << wire_in, stream, refs, fatal, rx_raised, probe >>

\* wl_callback.set_handler('done', self._wl_display_sync_handler)
SyncSetHandler ==
    /\ sync_pc = "set_handler"
    /\ client' = SetHandler(client, sync_ref, "done", "_wl_display_sync_handler")
    /\ sync_pc' = "acquire"
    /\ UNCHANGED << wire_in, stream, refs, calls, returned, sync_ref, fatal, rx_raised, probe >>

\* self._sync_semaphore.acquire(True, 5) acquires
SyncAcquire ==
    /\ sync_pc = "acquire"
    /\ client.semaphore > 0
    /\ client' = [client EXCEPT !.semaphore = @ - 1]
    /\ sync_pc' = "idle"
    /\ returned' = Plain("sync", NoException, sync_ref, TRUE)
    /\ UNCHANGED << wire_in, stream, refs, calls, sync_ref, fatal, rx_raised, probe >>

\* self._sync_semaphore.acquire(True, 5) times out
SyncTimeout ==
    /\ sync_pc = "acquire"
    /\ client.semaphore = 0
    /\ sync_pc' = "idle"
    /\ returned' = Plain("sync", NoException, sync_ref, FALSE)
    /\ UNCHANGED << client, wire_in, stream, refs, calls, sync_ref, fatal, rx_raised, probe >>

BindNames == {"wl_output"}

\* the room the socket's send buffer may have: none, less than a frame, or
\* enough for any frame
SocketRooms == {0, 1, HeaderLength, MaxFrameSize}

\* the socket's send buffer fills up or drains (the socket is non-blocking)
SocketAccepts(n) ==
    /\ n \in SocketRooms
    /\ n # client.accepts
    /\ client' = [client EXCEPT !.accepts = n]
    /\ UNCHANGED << wire_in, stream, refs, calls, returned, sync_pc, sync_ref, fatal, rx_raised, probe >>

\* Client.sync(), statement by statement
Sync == SyncRequest \/ SyncSetHandler \/ SyncAcquire \/ SyncTimeout

\* recvmsg returns all the bytes in flight
ReceiveAll == ReceiveCall(Len(wire_in))

(***************************************************************************)
(* Spec: object ids and requests.  The application invokes the first       *)
(* request of the objects it holds (wl_display.sync, wl_registry.bind,     *)
(* wl_output.release) and binds globals; the compositor advertises a       *)
(* global and deletes ids; every recvmsg returns all the bytes in flight.  *)
(***************************************************************************)
Next ==
    \/ \E frame \in DeleteIdFrames(client) \cup GlobalFrames(client, {1}) :
           ServerEmit(frame, MaxFrames)
    \/ ReceiveAll
    \/ \E ref \in refs, args \in ArgTuples : InvokeRequest(ref, 0, args)
    \/ \E ref \in refs : InvokeWithNewId(ref, 0)
    \/ \E name \in BindNames : Bind(name)

Spec == Init /\ [][Next]_vars

(***************************************************************************)
(* SpecSync: Client.sync() in one thread, receive() in another, the        *)
(* compositor answering with wl_callback.done and wl_display.delete_id;    *)
(* the compositor advertises a global, which the application binds.        *)
(***************************************************************************)
SyncBindNames == {"wl_output", "wl_shell"}

NextSync ==
    \/ \E frame \in CallbackDoneFrames(client) \cup DeleteIdFrames(client) :
           ServerEmit(frame, MaxFrames)
    \/ \E name \in SyncBindNames :
           \E frame \in GlobalFramesOf(client, {1}, name) : ServerEmit(frame, MaxFrames)
    \/ ReceiveAll
    \/ \E name \in SyncBindNames : Bind(name)
    \/ Sync

SpecSync == Init /\ [][NextSync]_vars

(***************************************************************************)
(* SpecStream: the inbound byte stream, recvmsg returning any number of    *)
(* the bytes in flight; the application binds a global and sets handlers.  *)
(***************************************************************************)
MaxStreamCalls == 1

StreamFrames(c) ==
    ErrorFrames(c) \cup GlobalFrames(c, {1}) \cup OutputDoneFrames(c) \cup DesyncFrames(c)
        \cup ShortFrames(c)

\* what recvmsg may return: any number of the bytes in flight; once a
\* receive() call has raised, all of them
ChunkSizes == IF rx_raised > 0 THEN {Len(wire_in)} ELSE 1..Len(wire_in)

NextStream ==
    \/ \E frame \in StreamFrames(client) : ServerEmit(frame, MaxFrames)
    \/ \E n \in ChunkSizes : ReceiveCall(n)
    \/ calls < MaxStreamCalls /\ Returns /\ \E name \in BindNames : Bind(name)
    \/ calls < MaxStreamCalls /\ Returns /\
           \E ref \in refs, name \in {"done", "global"}, handler \in UserHandlers :
               AppSetHandler(ref, name, handler)

SpecStream == Init /\ [][NextStream]_vars

(***************************************************************************)
(* SpecGlobals: the registry's globals.                                    *)
(***************************************************************************)
MaxGlobalEvents == 3

NextGlobals ==
    \/ \E frame \in GlobalFrames(client, GlobalNames) \cup GlobalRemoveFrames(client, GlobalNames) :
           ServerEmit(frame, MaxGlobalEvents)
    \/ ReceiveAll
    \/ \E name \in BindNames : Bind(name)

SpecGlobals == Init /\ [][NextGlobals]_vars

(***************************************************************************)
(* SpecSend: requests written to a socket whose send buffer may be short   *)
(* of room.                                                                *)
(***************************************************************************)
NextSend ==
    \/ \E n \in SocketRooms : SocketAccepts(n)
    \/ \E ref \in refs, args \in ArgTuples : InvokeRequest(ref, 0, args)
    \/ \E ref \in refs : InvokeWithNewId(ref, 0)

SpecSend == Init /\ [][NextSend]_vars

(***************************************************************************)
(* SpecHandlers: the application sets and removes handlers of the          *)
(* wl_registry events while the compositor advertises globals.             *)
(***************************************************************************)
NextHandlers ==
    \/ \E frame \in GlobalFrames(client, {1}) : ServerEmit(frame, MaxFrames)
    \/ ReceiveAll
    \/ \E name \in {"global"}, handler \in UserHandlers :
           AppSetHandler(client.wl_registry, name, handler)
    \/ \E name \in {"global"}, handler \in UserHandlers :
           AppRemoveHandler(client.wl_registry, name, handler)

SpecHandlers == Init /\ [][NextHandlers]_vars

(***************************************************************************)
(* SpecEditing: handlers of wl_registry.global that remove and set         *)
(* handlers of the event while it is dispatched.                           *)
(***************************************************************************)
NextEditing ==
    \/ \E frame \in GlobalFrames(client, {1}) : ServerEmit(frame, MaxFrames)
    \/ ReceiveAll
    \/ \E handler \in {"on_event"} \cup EditingHandlers :
           AppSetHandler(client.wl_registry, "global", handler)

SpecEditing == Init /\ [][NextEditing]_vars

(***************************************************************************)
(* SpecLifetime: the lifetime of object ids.  The application invokes      *)
(* requests (wl_output.release is a destructor), binds a global, and sets  *)
(* and removes handlers; the compositor advertises a global and deletes    *)
(* ids.                                                                    *)
(***************************************************************************)
NextLifetime ==
    \/ \E frame \in DeleteIdFrames(client) \cup GlobalFrames(client, {1}) :
           ServerEmit(frame, MaxFrames)
    \/ ReceiveAll
    \/ \E ref \in refs, args \in {<< >>, << PyNone >>} : InvokeRequest(ref, 0, args)
    \/ \E name \in BindNames : Bind(name)
    \/ calls < MaxCalls /\ \E ref \in refs, name \in {"done", "delete_id"} :
           AppSetHandler(ref, name, "on_event")
    \/ calls < MaxCalls /\ \E ref \in refs, name \in {"done", "delete_id"} :
           AppRemoveHandler(ref, name, "on_event")

SpecLifetime == Init /\ [][NextLifetime]_vars

(***************************************************************************)
(* SpecCodec: the wire codec on its own.  String and Array are applied to  *)
(* every text and byte array of up to MaxTextLen characters (NUL, a, b);    *)
(* Event.__call__ decodes the payloads the compositor writes for           *)
(* wl_registry.global, wl_keyboard.enter and wl_keyboard.keymap, whose fd  *)
(* travels as ancillary data.                                              *)
(***************************************************************************)
Texts == UNION {[1..n -> {0, 97, 98}] : n \in 0..MaxTextLen}

Probed(kind, value, encoded, wire) ==
    [NoProbe EXCEPT !.kind = kind, !.value = value, !.encoded = encoded,
                    !.decoded = IF encoded.ok THEN FromBytes(kind, encoded.bytes)
                                ELSE DecodeError,
                    !.wire = wire,
                    !.wire_decoded = FromBytes(kind, wire \o WireUInt(GlobalVersion))]

\* String(text).to_bytes(), String.from_bytes of the result and of the string
\* as the compositor writes it, another argument behind it
CodecString(text) ==
    /\ probe' = Probed("string", PyStr(text), ToBytes("string", PyStr(text)),
                        WireString(text))
    /\ UNCHANGED << client, wire_in, stream, refs, calls, returned, sync_pc, sync_ref, fatal,
                    rx_raised >>

\* the same for Array
CodecArray(array) ==
    /\ probe' = Probed("array", PyBytes(array), ToBytes("array", PyBytes(array)),
                        WireArray(array))
    /\ UNCHANGED << client, wire_in, stream, refs, calls, returned, sync_pc, sync_ref, fatal,
                    rx_raised >>

\* the decoding loop of Event.__call__(payload) for the event at opcode of an
\* interface; values are the arguments the compositor sent, fds those of
\* them it sent as ancillary data, payload the others on the wire
DecodeEvent(interface, opcode, values, fds, payload) ==
    /\ probe' = [NoProbe EXCEPT !.kind = Events(interface)[opcode + 1].name,
                                !.value = values, !.fds = fds, !.wire = payload,
                                !.event = DecodeArguments(
                                              Events(interface)[opcode + 1].arguments,
                                              payload, << >>)]
    /\ UNCHANGED << client, wire_in, stream, refs, calls, returned, sync_pc, sync_ref, fatal,
                    rx_raised >>

NextCodec ==
    \/ \E text \in Texts : CodecString(text)
    \/ \E array \in Texts : CodecArray(array)
    \/ \E n \in GlobalNames, text \in Texts, version \in {GlobalVersion} :
           DecodeEvent("wl_registry", 0, << PyInt(n), PyStr(text), PyInt(version) >>,
                       << >>, WireUInt(n) \o WireString(text) \o WireUInt(version))
    \/ \E serial \in {CallbackData}, surface \in {3}, array \in Texts :
           DecodeEvent("wl_keyboard", 1, << PyInt(serial), PyInt(surface), PyBytes(array) >>,
                       << >>, WireUInt(serial) \o WireUInt(surface) \o WireArray(array))
    \/ \E format \in {0, 1}, fd \in {5, 6}, size \in {0, 1, 4096} :
           DecodeEvent("wl_keyboard", 0, << PyInt(format), PyInt(fd), PyInt(size) >>,
                       << fd >>, WireUInt(format) \o WireUInt(size))

SpecCodec == Init /\ [][NextCodec]_vars

(***************************************************************************)
(* Properties.                                                             *)
(***************************************************************************)
\* the bytes of the frames emitted, in order
RECURSIVE StreamBytes(_)
StreamBytes(frames) ==
    IF frames = << >> THEN << >> ELSE Head(frames).frame \o StreamBytes(Tail(frames))

\* the bytes recvmsg has returned so far
ReceivedLength == Len(StreamBytes(stream)) - Len(wire_in)

AllValid == \A i \in 1..Len(stream) : stream[i].valid

\* the i-th dispatch is the dispatch of the i-th frame emitted
DispatchOf(i) ==
    /\ client.dispatched[i].oid = HeaderFromBytes(stream[i].frame).oid
    /\ client.dispatched[i].size = Len(stream[i].frame)
    /\ client.dispatched[i].name =
           Events(client.dispatched[i].interface)
               [HeaderFromBytes(stream[i].frame).opcode + 1].name

(***************************************************************************)
(* C1: once receive() has consumed all the bytes of a stream of valid      *)
(* frames, whatever the chunks recvmsg returned them in, every frame has   *)
(* been dispatched exactly once, in stream order, a frame of size 8 at the *)
(* end of the stream included, and the receive buffer is empty.            *)
(***************************************************************************)
C1_FramesDispatchedInOrder ==
    (AllValid /\ rx_raised = 0 /\ wire_in = << >>) =>
        /\ Len(client.dispatched) = Len(stream)
        /\ \A i \in 1..Len(stream) : DispatchOf(i)
        /\ client._recv_buffer = << >>

(***************************************************************************)
(* C2: sync() returns with the semaphore acquired only after the done      *)
(* event of the wl_callback that this very call created was dispatched.    *)
(***************************************************************************)
C2_SyncReturnsAfterItsDone ==
    (returned.op = "sync" /\ returned.acquired) =>
        \E i \in 1..Len(client.dispatched) :
            /\ client.dispatched[i].serial = returned.interface.serial
            /\ client.dispatched[i].name = "done"

\* the step is one in which __next__ returned oid
Allocates(oid) ==
    /\ Len(client'.id_log) = Len(client.id_log) + 1
    /\ client'.id_log[Len(client'.id_log)] = IdEvent("allocated", oid)

(***************************************************************************)
(* C3: an id that the pool's allocation returns is never a key of the live *)
(* object map at that moment, after the generator has wrapped around too.  *)
(***************************************************************************)
C3_AllocatedIdNotLive ==
    [][\A oid \in 0..MaximumId :
           Allocates(oid) => oid \notin DOMAIN client.client_objects]_vars

\* the removal at position p of the log has not been followed by an
\* allocation of the id removed
Unreused(log, p) ==
    /\ log[p].kind = "removed"
    /\ \A q \in (p + 1)..Len(log) : log[q] # IdEvent("allocated", log[p].oid)

HasUnreused(log) == \E p \in 1..Len(log) : Unreused(log, p)

\* the id removed earliest and not yet reused
EarliestUnreused(log) ==
    log[CHOOSE p \in 1..Len(log) :
            Unreused(log, p) /\ \A q \in 1..(p - 1) : ~Unreused(log, q)].oid

\* the last event of the log is an allocation made when no removed id was
\* waiting to be reused
LastFromGenerator(log) ==
    /\ log # << >>
    /\ log[Len(log)].kind = "allocated"
    /\ ~HasUnreused(Take(log, Len(log) - 1))

(***************************************************************************)
(* C4: when the recycle queue is non-empty, the next allocation returns    *)
(* the id that delete_id removed earliest and that was not yet reused, and *)
(* does not advance the generator; when it is empty, successive            *)
(* allocations return strictly increasing ids within one generator cycle   *)
(* (a new cycle starts at the minimum, 1).                                 *)
(***************************************************************************)
C4_RecycledFirstInFifoOrder ==
    [][\A oid \in 0..MaximumId :
           Allocates(oid) =>
               IF client.recycle_pool # << >>
               THEN /\ HasUnreused(client.id_log)
                    /\ oid = EarliestUnreused(client.id_log)
                    /\ client'.sequence = client.sequence
               ELSE LastFromGenerator(client.id_log) =>
                        \/ oid > client.id_log[Len(client.id_log)].oid
                        \/ oid = 1]_vars

\* two ids were removed and the one removed first was allocated again
C4_Witness ==
    \E i, j, k \in 1..Len(client.id_log) :
        /\ i < j /\ j < k
        /\ client.id_log[i].kind = "removed"
        /\ client.id_log[j].kind = "removed"
        /\ client.id_log[i].oid # client.id_log[j].oid
        /\ client.id_log[k] = IdEvent("allocated", client.id_log[i].oid)

\* the step is the invocation of a request
Invokes == calls' = calls + 1 /\ returned'.op = "request"

\* the arguments the request invoked declares
Declared(r) == Requests(r.on.name)[r.opcode + 1].arguments

LastOf(log) == log[Len(log)]

(***************************************************************************)
(* C5: every invocation of a request with a pinned new_id argument, the    *)
(* caller supplying an id or none, returns an object registered in the     *)
(* live map and writes a frame in which the id encoded for that argument   *)
(* is the id of that object.                                               *)
(***************************************************************************)
C5_EncodedIdIsRegisteredId ==
    [][(/\ Invokes
        /\ returned'.nargs = 1
        /\ Len(Declared(returned')) = 1
        /\ ReturnsNewObject(Declared(returned')[1]))
       => /\ returned'.interface # NoInterface
          /\ IsLive(client', returned'.interface)
          /\ Len(client'.sent) = Len(client.sent) + 1
          /\ UnpackI(Slice(LastOf(client'.sent), HeaderLength, HeaderLength + 4)).value.n
                 = returned'.interface.oid]_vars

(***************************************************************************)
(* C6: once receive() has processed a wl_display.error event or a frame    *)
(* with an unknown object id or opcode, the connection is fatal for good:  *)
(* no later request or receive() call writes to the socket, dispatches an  *)
(* event or calls a handler.                                               *)
(***************************************************************************)
C6_FatalStateRefuses ==
    [][fatal => /\ client'.sock_out = client.sock_out
                /\ client'.dispatched = client.dispatched
                /\ client'.invoked = client.invoked]_vars

(***************************************************************************)
(* C7: after delete_id(X) was dispatched and until X is allocated again,   *)
(* a request invoked on the object that held X is rejected with an error   *)
(* and writes no frame to the socket.                                      *)
(***************************************************************************)
C7_DeletedObjectRejected ==
    [][(Invokes /\ returned'.on.oid \notin DOMAIN client.client_objects)
       => /\ returned'.raised # NoException
          /\ client'.sock_out = client.sock_out]_vars

\* the events dispatched say that the global n is advertised and not removed
Advertised(log, n) ==
    \E i \in 1..Len(log) :
        /\ log[i].interface = "wl_registry" /\ log[i].name = "global"
        /\ log[i].args[1].n = n
        /\ \A j \in (i + 1)..Len(log) :
               ~(/\ log[j].interface = "wl_registry" /\ log[j].name = "global_remove"
                 /\ log[j].args[1].n = n)

(***************************************************************************)
(* C8: after any sequence of global and global_remove events, globals of   *)
(* one interface name included, the two indexes agree: every global name   *)
(* of global_mapping maps to an interface that has an entry in             *)
(* global_objects, a removed global is in neither, and every global        *)
(* advertised and not removed is resolvable through both.                  *)
(***************************************************************************)
C8_GlobalIndexesAgree ==
    /\ \A n \in DOMAIN client.global_mapping :
           client.global_mapping[n] \in DOMAIN client.global_objects
    /\ \A n \in GlobalNames :
           Advertised(client.dispatched, n) <=> n \in DOMAIN client.global_mapping

(***************************************************************************)
(* C9: a request invoked with a number of positional values that differs   *)
(* from the number of arguments it declares is rejected with an error,     *)
(* writes nothing to the socket, allocates no id and leaves the live       *)
(* object map unchanged.                                                   *)
(***************************************************************************)
C9_ArityMismatchRejected ==
    [][(Invokes /\ returned'.nargs # Len(Declared(returned')))
       => /\ returned'.raised = "AssertionError"
          /\ returned'.interface = NoInterface
          /\ client'.sock_out = client.sock_out
          /\ client'.sequence = client.sequence
          /\ client'.recycle_pool = client.recycle_pool
          /\ client'.id_log = client.id_log
          /\ client'.client_objects = client.client_objects]_vars

\* a request declaring one argument was invoked with none, or with two
C9_Witness ==
    /\ returned.op = "request"
    /\ returned.nargs # Len(Declared(returned))
    /\ Len(Declared(returned)) = 1
    /\ returned.raised = "AssertionError"

\* the number of bytes of the frames dispatched
RECURSIVE DispatchedLength(_)
DispatchedLength(log) ==
    IF log = << >> THEN 0 ELSE Head(log).size + DispatchedLength(Tail(log))

\* the bytes received behind the first n
Undispatched(n) == Slice(StreamBytes(stream), n, ReceivedLength)

(***************************************************************************)
(* C10: after the receive() call in which a handler raised, the receive    *)
(* buffer holds exactly the received bytes that were not dispatched: the   *)
(* bytes behind the frame whose handler raised (or from that frame on), no *)
(* byte dropped and no frame dispatched before kept.                       *)
(***************************************************************************)
C10_BufferKeptWhenHandlerRaises ==
    (/\ returned.op = "receive" /\ returned.raised = "HandlerError"
     /\ rx_raised = 1 /\ AllValid) =>
        \/ client._recv_buffer = Undispatched(DispatchedLength(client.dispatched))
        \/ client._recv_buffer =
               Undispatched(DispatchedLength(client.dispatched)
                                - LastOf(client.dispatched).size)

\* the bytes of the requests invoked, in order
RECURSIVE RequestBytes(_)
RequestBytes(frames) ==
    IF frames = << >> THEN << >> ELSE Head(frames) \o RequestBytes(Tail(frames))

(***************************************************************************)
(* C11: the bytes on the socket are always the beginning of the            *)
(* concatenation of the frames of the requests invoked, in invocation      *)
(* order: when the socket accepts part of a frame, the rest of it is       *)
(* written before any byte of a later request.                             *)
(***************************************************************************)
C11_FramesWrittenWholeInOrder ==
    client.sock_out = Take(RequestBytes(client.sent), Len(client.sock_out))

\* the step is the named call on a handler table
HandlerStep(op) == calls' = calls + 1 /\ returned'.op = op

(***************************************************************************)
(* C12: whatever the handler list, the handler already in it or not,       *)
(* set_handler(e, h) followed at once by remove_handler(e, h) leaves the   *)
(* handler list of e equal, in content and order, to the list before the   *)
(* set; remove_handler of a handler that is not in the list changes        *)
(* nothing.                                                                *)
(***************************************************************************)
C12_SetThenRemoveRestores ==
    [][HandlerStep("remove_handler") =>
           /\ (/\ returned.op = "set_handler"
               /\ returned.on = returned'.on
               /\ returned.event = returned'.event
               /\ returned.handler = returned'.handler)
              => HandlersOf(client', returned'.on, returned'.event) = returned.before
           /\ ~InSeq(returned'.handler, returned'.before) => client' = client]_vars

\* the handlers registered, before the step, for the events dispatched, in
\* the order of the events and for each event in registration order
RECURSIVE Registered(_)
Registered(events) ==
    IF events = << >> THEN << >>
    ELSE client.client_objects[Head(events).oid]._handlers[Head(events).name]
             \o Registered(Tail(events))

\* the calls made of a list of handlers to call: all of them up to the first
\* that raises
RECURSIVE UntilRaise(_)
UntilRaise(handlers) ==
    IF handlers = << >> THEN << >>
    ELSE IF Head(handlers) = "faulty" THEN << "faulty" >>
    ELSE << Head(handlers) >> \o UntilRaise(Tail(handlers))

BindFrame(n, interface, new_id) ==
    WireFrame(2, 0, WireUInt(n) \o WireString(Text(interface)) \o WireUInt(GlobalVersion)
                        \o WireUInt(new_id))

(***************************************************************************)
(* C14: after construction the live map holds wl_display at id 1 and       *)
(* wl_registry at id 2 and the get_registry frame with new id 2 was        *)
(* written on object 1; the first bind afterwards gets id 3 and writes on  *)
(* object 2 a bind frame with the global's name, the interface string, the *)
(* global's version and the new id 3; a sync() that follows uses id 4.     *)
(***************************************************************************)
C14_BootstrapIds ==
    /\ returned.op = "__init__" =>
           /\ DOMAIN client.client_objects = {1, 2}
           /\ client.client_objects[1].name = "wl_display"
           /\ client.client_objects[2].name = "wl_registry"
           /\ client.sent = << WireFrame(1, 1, WireUInt(2)) >>
    /\ (calls = 1 /\ returned.op = "bind_interface" /\ returned.raised = NoException) =>
           /\ returned.interface.oid = 3
           /\ IsLive(client, returned.interface)
           /\ Len(client.sent) = 2
           /\ client.sent[2] = BindFrame(1, returned.interface.name, 3)
    /\ (/\ calls = 2 /\ returned.op = "sync" /\ returned.raised = NoException
        /\ Len(client.sent) = 3
        /\ HeaderFromBytes(Take(client.sent[2], HeaderLength)).oid = 2
        /\ \A i \in 1..Len(client.id_log) : client.id_log[i].kind # "removed") =>
           /\ sync_ref.oid = 4
           /\ client.sent[3] = WireFrame(1, 0, WireUInt(4))

\* the number of times oid is in the recycle pool
Recycled(pool, oid) == Cardinality({i \in 1..Len(pool) : pool[i] = oid})

\* the step dispatches a wl_display.delete_id event for oid
DispatchesDeleteId(oid) ==
    \E i \in (Len(client.dispatched) + 1)..Len(client'.dispatched) :
        /\ client'.dispatched[i].interface = "wl_display"
        /\ client'.dispatched[i].name = "delete_id"
        /\ client'.dispatched[i].args[1].n = oid

(***************************************************************************)
(* C15: an id leaves the live object map, and an id enters the recycle     *)
(* queue, only in a step that dispatches a wl_display.delete_id event for  *)
(* that id: no request (a destructor included), no set_handler or          *)
(* remove_handler and no other event does either.                          *)
(***************************************************************************)
C15_OnlyDeleteIdRemoves ==
    [][\A oid \in 0..MaximumId :
           (\/ oid \in DOMAIN client.client_objects \ DOMAIN client'.client_objects
            \/ Recycled(client'.recycle_pool, oid) > Recycled(client.recycle_pool, oid))
           => DispatchesDeleteId(oid)]_vars

\* the destructor wl_output.release was written for the object 3, and later
\* a delete_id event removed the id 3, which is in the recycle queue
C15_Witness ==
    /\ \E i \in 1..Len(client.sent) : client.sent[i] = WireFrame(3, 0, << >>)
    /\ client.recycle_pool = << 3 >>
    /\ 3 \notin DOMAIN client.client_objects

(***************************************************************************)
(* C16: an event's fd argument is decoded from the fds that arrived as     *)
(* ancillary data, in order, and takes no bytes of the payload, so that    *)
(* the arguments declared behind it are decoded from their own bytes: the  *)
(* values decoded are the values the compositor sent.                      *)
(***************************************************************************)
C16_FdFromAncillaryData ==
    probe.kind = "keymap" => probe.event = [ok |-> TRUE, values |-> probe.value]

(***************************************************************************)
(* C17: for every string and byte array, those of length 0 or a multiple   *)
(* of 4 included, the length of the encoding is a multiple of 4; a string  *)
(* is encoded as the prefix len + 1, the text and a NUL terminator, an     *)
(* array as the prefix len and the bytes; decoding the encoding gives the  *)
(* value back.                                                             *)
(***************************************************************************)
C17_EncodeDecodeRoundTrip ==
    /\ probe.kind \in {"string", "array"} =>
           /\ probe.encoded.ok
           /\ Len(probe.encoded.bytes) % 4 = 0
           /\ probe.decoded.ok
           /\ probe.decoded.value = probe.value
    /\ probe.kind = "string" =>
           /\ Take(probe.encoded.bytes, 4) = LE(Len(probe.value.s) + 1, 4)
           /\ Slice(probe.encoded.bytes, 4, 4 + Len(probe.value.s) + 1)
                  = probe.value.s \o << 0 >>
    /\ probe.kind = "array" =>
           /\ Take(probe.encoded.bytes, 4) = LE(Len(probe.value.s), 4)
           /\ Slice(probe.encoded.bytes, 4, 4 + Len(probe.value.s)) = probe.value.s

(***************************************************************************)
(* C18: decoding a string or array argument advances the cursor by the     *)
(* argument's length on the wire (4 plus the byte count of the prefix,     *)
(* rounded up to a multiple of 4), whatever the length of the text, so     *)
(* that the arguments behind it (the version of wl_registry.global) are    *)
(* decoded from their true offset.                                         *)
(***************************************************************************)
C18_CursorAdvancesWireLength ==
    /\ probe.kind \in {"string", "array"} =>
           /\ probe.wire_decoded.ok
           /\ probe.wire_decoded.length = Len(probe.wire)
    /\ probe.kind \in {"global", "enter"} =>
           probe.event = [ok |-> TRUE, values |-> probe.value]

\* the (object id, event, arguments) dispatched, in order
Dispatches(c) ==
    [i \in 1..Len(c.dispatched) |->
        [oid |-> c.dispatched[i].oid, name |-> c.dispatched[i].name,
         args |-> c.dispatched[i].args]]

\* what is dispatched and what the receive buffer holds
Delivered(c) == [dispatches |-> Dispatches(c), residue |-> c._recv_buffer]

(***************************************************************************)
(* C19: whatever part of the bytes in flight (valid frames) a receive()    *)
(* call gets, once another receive() call has got the rest, the (object    *)
(* id, event, arguments) dispatched and the bytes left in the receive      *)
(* buffer are those of a single receive() call that gets them all.         *)
(***************************************************************************)
C19_ChunkingIrrelevant ==
    [][(AllValid /\ stream' = stream /\ wire_in' # wire_in /\ wire_in' # << >>) =>
           Delivered(Receive(client', wire_in')) = Delivered(Receive(client, wire_in))]_vars

\* the i-th frame emitted gives a size smaller than the header
ShortAt(i) == HeaderFromBytes(stream[i].frame).size < HeaderLength

(***************************************************************************)
(* C20: receive() returns or raises, whatever the bytes buffered, and a    *)
(* frame whose header gives a size smaller than the 8 bytes of the header  *)
(* is not dispatched: once all the bytes of a stream whose first invalid   *)
(* frame is such a frame are received, only the frames before it have      *)
(* been dispatched.                                                        *)
(***************************************************************************)
C20_ReceiveTerminates ==
    /\ Returns
    /\ \A i \in 1..Len(stream) :
           (/\ ShortAt(i)
            /\ \A j \in 1..(i - 1) : stream[j].valid
            /\ wire_in = << >>) => Len(client.dispatched) < i

\* the done event of the wl_callback was dispatched
DoneDispatched(callback) ==
    \E i \in 1..Len(client.dispatched) :
        /\ client.dispatched[i].serial = callback.serial
        /\ client.dispatched[i].name = "done"

(***************************************************************************)
(* C21: with sync() in one thread and receive() in another, the done event *)
(* of the wl_callback that sync() created is not dispatched before sync()  *)
(* has registered the handler that releases the semaphore on it, and       *)
(* sync() does not time out when the done event was dispatched.            *)
(***************************************************************************)
C21_DoneAfterHandlerRegistered ==
    /\ sync_pc = "set_handler" => ~DoneDispatched(sync_ref)
    /\ (/\ returned.op = "sync" /\ sync_pc = "idle"
        /\ returned.interface # NoInterface /\ ~returned.acquired) =>
           ~DoneDispatched(returned.interface)

\* the members of the sequence that are in the set, in order
RECURSIVE Among(_, _)
Among(seq, set) ==
    IF seq = << >> THEN << >>
    ELSE IF Head(seq) \in set THEN << Head(seq) >> \o Among(Tail(seq), set)
    ELSE Among(Tail(seq), set)

NoDuplicates(seq) == \A i, j \in 1..Len(seq) : seq[i] = seq[j] => i = j

Range(seq) == {seq[i] : i \in 1..Len(seq)}

\* the handlers of wl_registry.global
GlobalHandlers(c) == HandlersOf(c, c.wl_registry, "global")

(***************************************************************************)
(* C22: when handlers remove or set handlers of the event while it is      *)
(* dispatched, every handler that was registered when the dispatch began   *)
(* and was not removed is invoked once for the event, in registration      *)
(* order.  (A receive() call that dispatches one wl_registry.global, each   *)
(* handler registered once.)                                               *)
(***************************************************************************)
C22_SurvivingHandlersInvokedOnce ==
    [][(/\ Len(client'.dispatched) = Len(client.dispatched) + 1
        /\ NoDuplicates(GlobalHandlers(client))
        /\ NoDuplicates(GlobalHandlers(client'))) =>
           Among(SubSeq(client'.invoked, Len(client.invoked) + 1, Len(client'.invoked)),
                 Range(GlobalHandlers(client)) \cap Range(GlobalHandlers(client')))
               = Among(GlobalHandlers(client), Range(GlobalHandlers(client')))]_vars

====
